---------------------------- MODULE Spec2Model ----------------------------
(***************************************************************************)
(* A model of the CP372 client/server pair: src/server.py (accept loop,    *)
(* session threads, client registry) and src/client.py (SocketReader and   *)
(* the file receive path).                                                  *)
(*                                                                          *)
(* Bytes and text are TLA+ strings, one character per byte.  The character *)
(* "#" stands for a byte that is not valid UTF-8 (such as 0xFF): decoding  *)
(* a line that holds it raises UnicodeDecodeError.                         *)
(*                                                                          *)
(* Five specifications share the module:                                   *)
(*   ReaderSpec   one client SocketReader driven by arbitrary calls        *)
(*   TransferSpec server send_file against the client's receive path       *)
(*   Spec         the server: accept loop, session threads, registry       *)
(*   FairSpec     Spec with its threads scheduled fairly                   *)
(*   DialogSpec   one client's command loop against its server session     *)
(***************************************************************************)
EXTENDS Integers, Sequences, FiniteSets, TLC

VARIABLES
    \* ---- one connection as seen by the client's SocketReader
    wire,        \* bytes the peer has sent that recv() has not returned yet
    wireOpen,    \* TRUE while the peer may still send; FALSE: peer closed
    buffer,      \* SocketReader.buffer
    call,        \* the SocketReader call in progress: [op, n]
    ret,         \* what the last completed call returned: [kind, val]
    \* ---- ReaderSpec: the scripted source and what the calls returned
    source0,     \* the whole scripted byte source
    returned,    \* bytes returned so far, each line followed by its newline
    raised,      \* TRUE once a readline raised UnicodeDecodeError
    lastCall,    \* the latest call: [op, n, had], had = bytes buffered then
    \* ---- TransferSpec: server send_file and the client's receive path
    repo,        \* the server's repository: file name -> content
    req,         \* the path send_file is called with (a name under repo/)
    sPc,         \* where the server is: "send_file", "chunks", "next", ...
    fileLeft,    \* the part of the open file that f.read has not returned
    sizeSent,    \* the size send_file put in the FILESIZE header
    cPc,         \* where the client is in main's loop and recv_file
    size,        \* recv_file's size, parsed from the FILESIZE line
    remaining,   \* recv_file's remaining
    written,     \* what recv_file wrote to the output file
    outName,     \* the name recv_file took from the FILENAME line
    report,      \* what the client printed for this response
    \* ---- DialogSpec: the client's command loop against its session
    user,        \* client main's user: the line typed, stripped
    c2s,         \* the lines the client sent that the server has not read
    nCmds,       \* how many lines the user has typed
    \* ---- Spec: the server
    load,            \* the workload the server's environment follows
    clock,           \* seconds on the server's clock (what now_str shows)
    clients_lock,    \* server.py clients_lock: the threads that hold it
    client_counter,  \* server.py client_counter
    clients_cache,   \* server.py clients_cache, as its (name, info) items
    mainPc,          \* the accept loop: "accept" or "decide"
    mainConn,        \* main's conn: the connection just accepted
    mainCount,       \* the value current_active_count() returned to main
    nAccepted,       \* how many connections accept() has returned
    pc,              \* per connection: where its session thread is
    assigned,        \* per connection: handle_client's assigned_name
    name,            \* per connection: handle_client's name
    msg,             \* per connection: what its latest readline returned
    status_msg,      \* per connection: the lines format_status returned
    out,             \* per connection: bytes sent since that readline
    closes,          \* per connection: how often conn.close() was called
    deregs           \* per connection: names passed to close_client_record

rdVars == <<wire, wireOpen, buffer, call, ret>>
logVars == <<source0, returned, raised, lastCall>>
xfVars == <<repo, req, sPc, fileLeft, sizeSent, cPc, size, remaining, written,
            outName, report>>
srvVars == <<load, clock, clients_lock, client_counter, clients_cache, mainPc,
             mainConn, mainCount, nAccepted, pc, assigned, name, msg,
             status_msg, out, closes, deregs>>
dlgVars == <<user, c2s, nCmds>>
vars == <<rdVars, logVars, xfVars, dlgVars, srvVars>>

(***************************************************************************)
(* Bounds of the model.                                                     *)
(***************************************************************************)
\* recv/read chunk size; 4096 in the source (client.py:15, server.py:18),
\* scaled down so that lines and payloads span several chunks.
BUF_SIZE == 2
\* longest scripted source of ReaderSpec
MaxSrc == 4
\* largest n of a read(n) call in ReaderSpec
MaxRead == 3
\* longest file content of TransferSpec
MaxBlob == 3
\* how many lines the user types in DialogSpec
MaxCmds == 2

Min(a, b) == IF a < b THEN a ELSE b

(***************************************************************************)
(* Byte strings.                                                            *)
(***************************************************************************)
NL == "\n"
Bytes == {"a", "b", NL, "#"}

RECURSIVE StringsUpTo(_)
StringsUpTo(n) ==
    IF n = 0 THEN {""}
    ELSE LET S == StringsUpTo(n - 1)
         IN  S \cup {s \o c : s \in {t \in S : Len(t) = n - 1}, c \in Bytes}

Drop(s, k) == SubSeq(s, k + 1, Len(s))
Take(s, k) == SubSeq(s, 1, Min(k, Len(s)))
StartsWith(s, p) == Len(s) >= Len(p) /\ SubSeq(s, 1, Len(p)) = p
IsPrefix(p, s) == StartsWith(s, p)
Contains(s, c) == \E i \in 1..Len(s) : SubSeq(s, i, i) = c
\* index of the first occurrence of c in s (s must contain c)
IndexOf(s, c) == CHOOSE i \in 1..Len(s) :
                    /\ SubSeq(s, i, i) = c
                    /\ \A j \in 1..(i - 1) : SubSeq(s, j, j) # c

\* bytes.decode("utf-8") succeeds: no byte of the line is invalid
Decodable(s) == ~Contains(s, "#")

(***************************************************************************)
(* client.py SocketReader                                                   *)
(***************************************************************************)
Idle == [op |-> "idle", n |-> 0]
NoRet == [kind |-> "none", val |-> ""]

\* sock.recv(BUF_SIZE): any non-empty prefix of what has arrived, at most
\* BUF_SIZE bytes; b"" once the peer has closed and nothing is left; blocks
\* (no choice) while the connection is open and nothing has arrived.
RecvChoices ==
    IF wire = ""
    THEN IF wireOpen THEN {} ELSE {""}
    ELSE {Take(wire, k) : k \in 1..Min(BUF_SIZE, Len(wire))}

\* line, self.buffer = self.buffer.split(b"\n", 1)
SplitRestBug(buf) == Drop(buf, IndexOf(buf, NL) - 1)
SplitLine(buf) == SubSeq(buf, 1, IndexOf(buf, NL) - 1)
SplitRest(buf) == Drop(buf, IndexOf(buf, NL))

\* one iteration of readline's receive loop (client.py:29-33)
ReadlineRecv ==
    /\ call.op = "readline"
    /\ ~Contains(buffer, NL)
    /\ \E data \in RecvChoices :
         /\ wire' = Drop(wire, Len(data))
         /\ IF data = ""
            THEN /\ ret' = [kind |-> "eof", val |-> ""]
                 /\ call' = Idle
                 /\ buffer' = buffer
            ELSE /\ buffer' = buffer \o data
                 /\ UNCHANGED <<call, ret>>
    /\ UNCHANGED wireOpen

\* readline's split and decode (client.py:35-36): the buffer is cut before
\* the line is decoded, so a decoding error leaves the line consumed.
ReadlineReturn ==
    /\ call.op = "readline"
    /\ Contains(buffer, NL)
    /\ buffer' = SplitRest(buffer)
    /\ ret' = IF Decodable(SplitLine(buffer))
              THEN [kind |-> "line", val |-> SplitLine(buffer)]
              ELSE [kind |-> "raise", val |-> ""]
    /\ call' = Idle
    /\ UNCHANGED <<wire, wireOpen>>

\* result = self.buffer[:n]; self.buffer = self.buffer[n:]  (client.py:46-47)
ReadResultBug(buf, n) == buf
ReadResult(buf, n) == Take(buf, n)
ReadRest(buf, n) == Drop(buf, Min(n, Len(buf)))

\* one iteration of read's receive loop (client.py:40-44); on b"" the loop
\* breaks and the call returns what the buffer holds
ReadRecv ==
    /\ call.op = "read"
    /\ Len(buffer) < call.n
    /\ \E data \in RecvChoices :
         /\ wire' = Drop(wire, Len(data))
         /\ IF data = ""
            THEN /\ ret' = [kind |-> "bytes", val |-> ReadResult(buffer, call.n)]
                 /\ buffer' = ReadRest(buffer, call.n)
                 /\ call' = Idle
            ELSE /\ buffer' = buffer \o data
                 /\ UNCHANGED <<call, ret>>
    /\ UNCHANGED wireOpen

\* read's return once the buffer holds n bytes (client.py:46-48)
ReadReturn ==
    /\ call.op = "read"
    /\ Len(buffer) >= call.n
    /\ ret' = [kind |-> "bytes", val |-> ReadResult(buffer, call.n)]
    /\ buffer' = ReadRest(buffer, call.n)
    /\ call' = Idle
    /\ UNCHANGED <<wire, wireOpen>>

(***************************************************************************)
(* Text helpers: str.split(), int(), str(n).                                *)
(***************************************************************************)
Digits == <<"0", "1", "2", "3", "4", "5", "6", "7", "8", "9">>
IsDigit(c) == \E i \in 1..10 : Digits[i] = c
DigitVal(c) == (CHOOSE i \in 1..10 : Digits[i] = c) - 1

\* int(s) for a string of decimal digits; -1 stands for ValueError
RECURSIVE ParseNat(_, _)
ParseNat(s, acc) ==
    IF s = "" THEN acc
    ELSE IF ~IsDigit(Head(s)) THEN -1
    ELSE ParseNat(Tail(s), 10 * acc + DigitVal(Head(s)))
ParseInt(s) == IF s = "" THEN -1 ELSE ParseNat(s, 0)

\* str(n) / f"{n}" for n >= 0
Str(n) == ToString(n)

\* s.split(): the words of s, separated by runs of blanks
RECURSIVE SplitWs(_, _, _)
SplitWs(s, cur, acc) ==
    IF s = "" THEN (IF cur = "" THEN acc ELSE Append(acc, cur))
    ELSE IF Head(s) = " "
         THEN SplitWs(Tail(s), "", IF cur = "" THEN acc ELSE Append(acc, cur))
         ELSE SplitWs(Tail(s), cur \o Head(s), acc)
Split(s) == SplitWs(s, "", <<>>)

\* s.strip() for blanks
RECURSIVE LStrip(_)
LStrip(s) == IF s # "" /\ Head(s) = " " THEN LStrip(Tail(s)) ELSE s
RECURSIVE RStrip(_)
RStrip(s) ==
    IF s # "" /\ SubSeq(s, Len(s), Len(s)) = " "
    THEN RStrip(SubSeq(s, 1, Len(s) - 1)) ELSE s
Strip(s) == RStrip(LStrip(s))

\* s.lower(), for the capitals a command word is typed with
LowerChar(c) ==
    IF c = "E" THEN "e" ELSE IF c = "X" THEN "x"
    ELSE IF c = "I" THEN "i" ELSE IF c = "T" THEN "t" ELSE c
RECURSIVE Lower(_)
Lower(s) == IF s = "" THEN "" ELSE LowerChar(Head(s)) \o Lower(Tail(s))

\* s.split(" ", 1)[1]: what follows the first blank (s must hold one)
AfterFirstSpaceBug(s) == Take(s, IndexOf(s, " ") - 1)
AfterFirstSpace(s) == Drop(s, IndexOf(s, " "))

(***************************************************************************)
(* server.py send_text, send_file                                           *)
(***************************************************************************)
FileNames == {"f", "a b"}
BlobBytes == {"a", NL, "#"}

RECURSIVE BlobsUpTo(_)
BlobsUpTo(n) ==
    IF n = 0 THEN {""}
    ELSE LET S == BlobsUpTo(n - 1)
         IN  S \cup {s \o c : s \in {t \in S : Len(t) = n - 1}, c \in BlobBytes}

Absent == "<absent>"
\* the response to a command that follows the get; a raw client may have
\* sent that command already
NextResp == "k ACK" \o NL

\* conn.sendall(data): the bytes join the stream in order; on a connection
\* that is gone it raises, which send_text and send_file catch and print
SendAll(data) == wire' = IF wireOpen THEN wire \o data ELSE wire

\* header = f"FILESIZE {size}\nFILENAME {name}\n\n"  (server.py:109)
Header(sz, fname) ==
    "FILESIZE " \o Str(sz) \o NL \o "FILENAME " \o fname \o NL \o NL

\* send_file up to the header (server.py:102-110)
SendFileHeader ==
    /\ sPc = "send_file"
    /\ IF repo[req] = Absent
       THEN /\ SendAll("ERROR File not found" \o NL)
            /\ sPc' = "next"
            /\ UNCHANGED <<fileLeft, sizeSent>>
       ELSE /\ SendAll(Header(Len(repo[req]), req))
            /\ sizeSent' = Len(repo[req])
            /\ fileLeft' = repo[req]
            /\ sPc' = "chunks"
    /\ UNCHANGED <<wireOpen, repo, req>>

\* one iteration of send_file's loop (server.py:113-117)
SendFileChunk ==
    /\ sPc = "chunks"
    /\ IF fileLeft = ""
       THEN /\ sPc' = "next"
            /\ UNCHANGED <<wire, fileLeft>>
       ELSE /\ SendAll(Take(fileLeft, BUF_SIZE))
            /\ fileLeft' = Drop(fileLeft, Min(BUF_SIZE, Len(fileLeft)))
            /\ sPc' = "chunks"
    /\ UNCHANGED <<wireOpen, repo, req, sizeSent>>

\* the session's next response, sent on the same connection
SendNext ==
    /\ sPc = "next"
    /\ SendAll(NextResp)
    /\ sPc' = "done"
    /\ UNCHANGED <<wireOpen, repo, req, fileLeft, sizeSent>>

\* the connection goes away while the server still has bytes to send: what
\* was sent is still delivered, then the client's recv returns b""
ConnLost ==
    /\ sPc \in {"send_file", "chunks"}
    /\ wireOpen' = FALSE
    /\ sPc' = "lost"
    /\ UNCHANGED <<wire, repo, req, fileLeft, sizeSent>>

(***************************************************************************)
(* client.py main (lines 132-160) and recv_file                             *)
(***************************************************************************)
Returned == call.op = "idle"
DoReadline == call' = [op |-> "readline", n |-> 0]
DoRead(n) == call' = [op |-> "read", n |-> n]

\* the lines a user may type
UserLines == {"status", "list", "get f", "get zz", "exit", "EXIT", " exit",
              "hi", " "}

\* where main has left its loop; sock.close() follows on each way out
\* (client.py:136, 164, 172-173)
ClientDone == {"exited", "server_closed", "connection_error"}

\* user = input(...).strip(); an empty line is skipped, any other is sent
\* with a newline  (client.py:122-128)
Prompt ==
    /\ cPc = "prompt"
    /\ nCmds < MaxCmds
    /\ \E typed \in UserLines :
         /\ user' = Strip(typed)
         /\ IF Strip(typed) = ""
            THEN UNCHANGED <<c2s, cPc>>
            ELSE /\ c2s' = Append(c2s, Strip(typed))
                 /\ cPc' = "main"
    /\ nCmds' = nCmds + 1
    /\ UNCHANGED <<call, size, remaining, written, outName, report>>

\* line = reader.readline()  (client.py:132)
MainReadline ==
    /\ cPc = "main"
    /\ Returned
    /\ DoReadline
    /\ cPc' = "main_line"
    /\ UNCHANGED <<size, remaining, written, outName, report>>

\* main's dispatch on the line (client.py:134-160) and recv_file's start:
\* size = int(first_line.split()[1]); fname_line = reader.readline()
MainLine ==
    /\ cPc = "main_line"
    /\ Returned
    /\ IF ret.kind = "eof"
       THEN /\ cPc' = "server_closed"
            /\ UNCHANGED <<call, size, report>>
       ELSE IF ret.kind = "raise"
       THEN /\ cPc' = "connection_error"
            /\ UNCHANGED <<call, size, report>>
       ELSE IF StartsWith(ret.val, "FILESIZE ")
       THEN IF Len(Split(ret.val)) < 2 \/ ParseInt(Split(ret.val)[2]) < 0
            THEN /\ cPc' = "prompt"
                 /\ report' = "ERROR Receiving file failed"
                 /\ UNCHANGED <<call, size>>
            ELSE /\ size' = ParseInt(Split(ret.val)[2])
                 /\ DoReadline
                 /\ cPc' = "rf_fname"
                 /\ UNCHANGED report
       ELSE IF StartsWith(ret.val, "ERROR ")
       THEN /\ cPc' = "prompt"
            /\ report' = ret.val
            /\ UNCHANGED <<call, size>>
       ELSE IF StartsWith(ret.val, "===")
       THEN /\ report' = ret.val
            /\ DoReadline
            /\ cPc' = "multi"
            /\ UNCHANGED size
       ELSE /\ report' = ret.val
            /\ cPc' = IF Lower(user) = "exit" THEN "exited" ELSE "prompt"
            /\ UNCHANGED <<call, size>>
    /\ UNCHANGED <<remaining, written, outName>>

\* the loop over a multi-line response: next_line = reader.readline(),
\* left on None or a blank line  (client.py:152-157)
MultiLine ==
    /\ cPc = "multi"
    /\ Returned
    /\ IF ret.kind = "raise"
       THEN /\ cPc' = "connection_error"
            /\ UNCHANGED <<call, report>>
       ELSE IF ret.kind = "eof" \/ Strip(ret.val) = ""
       THEN /\ cPc' = "prompt"
            /\ UNCHANGED <<call, report>>
       ELSE /\ report' = ret.val
            /\ DoReadline
            /\ cPc' = "multi"
    /\ UNCHANGED <<size, remaining, written, outName>>

\* recv_file: the FILENAME line, then blank = reader.readline()
\* (client.py:59-65)
RecvFileName ==
    /\ cPc = "rf_fname"
    /\ Returned
    /\ IF ret.kind = "raise"
       THEN /\ cPc' = "prompt"
            /\ report' = "ERROR Receiving file failed"
            /\ UNCHANGED <<call, outName>>
       ELSE IF ret.kind = "eof" \/ ~StartsWith(ret.val, "FILENAME ")
       THEN /\ cPc' = "prompt"
            /\ report' = "ERROR Invalid file header"
            /\ UNCHANGED <<call, outName>>
       ELSE /\ outName' = AfterFirstSpace(ret.val)
            /\ DoReadline
            /\ cPc' = "rf_blank"
            /\ UNCHANGED report
    /\ UNCHANGED <<size, remaining, written>>

\* recv_file: the blank line is read and dropped, the file is opened and
\* remaining = size  (client.py:65-70)
RecvFileBlank ==
    /\ cPc = "rf_blank"
    /\ Returned
    /\ IF ret.kind = "raise"
       THEN /\ cPc' = "prompt"
            /\ report' = "ERROR Receiving file failed"
            /\ UNCHANGED <<remaining, written>>
       ELSE /\ remaining' = size
            /\ written' = ""
            /\ cPc' = "rf_loop"
            /\ UNCHANGED report
    /\ UNCHANGED <<call, size, outName>>

\* what recv_file prints after its loop (client.py:78)
Downloaded == "DOWNLOADED"

\* min(BUF_SIZE, remaining)  (client.py:72)
ChunkLenBug(rem) == BUF_SIZE
ChunkLen(rem) == Min(BUF_SIZE, rem)

\* recv_file's loop test and read (client.py:71-72); after the loop the
\* download is reported (client.py:78)
RecvFileLoop ==
    /\ cPc = "rf_loop"
    /\ Returned
    /\ IF remaining > 0
       THEN /\ DoRead(ChunkLen(remaining))
            /\ cPc' = "rf_chunk"
            /\ UNCHANGED report
       ELSE /\ cPc' = "prompt"
            /\ report' = Downloaded
            /\ UNCHANGED call
    /\ UNCHANGED <<size, remaining, written, outName>>

\* recv_file's loop body after the read (client.py:73-76)
RecvFileChunk ==
    /\ cPc = "rf_chunk"
    /\ Returned
    /\ IF ret.val = ""
       THEN /\ cPc' = "prompt"
            /\ report' = Downloaded
            /\ UNCHANGED <<written, remaining>>
       ELSE /\ written' = written \o ret.val
            /\ remaining' = remaining - Len(ret.val)
            /\ cPc' = "rf_loop"
            /\ UNCHANGED report
    /\ UNCHANGED <<call, size, outName>>

(***************************************************************************)
(* server.py: configuration and the environment of the server               *)
(***************************************************************************)
MAX_CLIENTS == 3

\* Two workloads bound the server's environment.
\*   "crowd": one connection more than the server admits, from clients that
\*            echo a name (their own or the first client's) and then
\*            disconnect, all within one second;
\*   "pair":  fewer connections than the server admits, from raw clients
\*            that may send any line, fail at any read, and live across
\*            clock ticks.
Workloads == {"crowd", "pair"}
CrowdConns == MAX_CLIENTS + 1
PairConns == MAX_CLIENTS - 1
\* the clock (in seconds, as now_str shows it) ticks at most this often
MaxClock == 1

ConnIds == 1..CrowdConns
ConnsOf(w) == IF w = "crowd" THEN CrowdConns ELSE PairConns

\* what readline hands back: a line, None at end of stream, or an exception
\* (recv failing, or the line not decoding)
Line(s) == [kind |-> "line", val |-> s]
Eof == [kind |-> "eof", val |-> ""]
Raise == [kind |-> "raise", val |-> ""]
NoLine == [kind |-> "none", val |-> ""]

\* f"Client{client_counter:02d}"  (server.py:234)
Pad2(n) == IF n < 10 THEN "0" \o Str(n) ELSE Str(n)
ClientName(n) == "Client" \o Pad2(n)

\* f"{addr[0]}:{addr[1]}": every connection has its own peer port
AddrOf(c) == "h:" \o Str(c)

(***************************************************************************)
(* server.py: the registry (clients_cache), an insertion-ordered dict,      *)
(* modelled as the sequence of its (name, info) items                       *)
(***************************************************************************)
None == "None"

HasName(cache, n) == \E i \in 1..Len(cache) : cache[i].name = n
PosOf(cache, n) == CHOOSE i \in 1..Len(cache) : cache[i].name = n

\* sum(1 for v in clients_cache.values() if v["active"])  (server.py:54)
ActiveCount(cache) == Cardinality({i \in 1..Len(cache) : cache[i].active})

NewRecord(n, addr, now) ==
    [name |-> n, addr |-> addr, connected_at |-> now,
     disconnected_at |-> None, active |-> TRUE]

\* clients_cache[name] = {...}  (server.py:59-64): a new key is appended, an
\* existing key keeps its place and gets the new value
AddClientRecord(cache, n, addr, now) ==
    IF HasName(cache, n)
    THEN [cache EXCEPT ![PosOf(cache, n)] = NewRecord(n, addr, now)]
    ELSE Append(cache, NewRecord(n, addr, now))

\* close_client_record's body (server.py:69-71)
CloseClientRecord(cache, n, now) ==
    IF HasName(cache, n)
    THEN [cache EXCEPT ![PosOf(cache, n)].active = FALSE,
                       ![PosOf(cache, n)].disconnected_at = now]
    ELSE cache

\* one line of format_status (server.py:82-87)
StatusLine(r) ==
    r.name \o " [" \o (IF r.active THEN "ACTIVE" ELSE "DISCONNECTED")
           \o "] | addr=" \o r.addr \o " | connected=" \o r.connected_at
           \o " | disconnected=" \o r.disconnected_at

\* format_status (server.py:75-88): the lines, before "\n".join
RECURSIVE StatusLines(_)
StatusLines(cache) ==
    IF cache = <<>> THEN <<>>
    ELSE <<StatusLine(Head(cache))>> \o StatusLines(Tail(cache))
FormatStatus(cache) ==
    <<"=== Server Cache ===">>
        \o (IF cache = <<>> THEN <<"(no connections yet)">>
            ELSE StatusLines(cache))

RECURSIVE JoinLines(_)
\* every line followed by "\n"
JoinLines(ls) == IF ls = <<>> THEN "" ELSE Head(ls) \o NL \o JoinLines(Tail(ls))

(***************************************************************************)
(* server.py: the responses of the command loop                             *)
(***************************************************************************)
RECURSIVE SkipWord(_)
SkipWord(s) == IF s # "" /\ Head(s) # " " THEN SkipWord(Tail(s)) ELSE s
\* msg.split(maxsplit=1): the first word and, if anything but blanks
\* follows, the rest from its first non-blank on
SplitMax1(s) ==
    LET t == LStrip(s)
        first == SubSeq(t, 1, Len(t) - Len(SkipWord(t)))
        rest == LStrip(SkipWord(t))
    IN  IF t = "" THEN <<>>
        ELSE IF rest = "" THEN <<first>>
        ELSE <<first, rest>>

CapacityLine == "ERROR Server at capacity (max 3 clients). Try again later." \o NL
AssignedLine(n) == "ASSIGNED " \o n \o NL
HelloLine(n) ==
    "HELLO " \o n \o ". Commands: status | list | get <file> | exit" \o NL
ByeLine == "BYE" \o NL
NotFoundLine == "ERROR File not found" \o NL

\* sorted(os.listdir(REPO_DIR)) over the names the repository can hold
FileOrder == <<"a b", "f">>
Present(f) == repo[f] # Absent
ListFiles == SelectSeq(FileOrder, Present)

\* the file's content as send_file's loop sends it, chunk after chunk
RECURSIVE Chunks(_)
Chunks(content) ==
    IF content = "" THEN ""
    ELSE Take(content, BUF_SIZE) \o Chunks(Drop(content, Min(BUF_SIZE, Len(content))))

\* everything send_file(conn, repo/<f>) puts on the connection
\* (server.py:102-117)
SendFileBytesBug(f) == Header(0, f)
SendFileBytes(f) ==
    IF f \notin DOMAIN repo \/ repo[f] = Absent THEN NotFoundLine
    ELSE Header(Len(repo[f]), f) \o Chunks(repo[f])

\* the status report as the loop sends it (server.py:165-167): each line of
\* the report with "\n", then the empty line
StatusBytesBug(lines) == JoinLines(lines)
StatusBytes(lines) == JoinLines(lines) \o NL

\* the list response (server.py:173-178)
ListBytes ==
    IF ListFiles # <<>>
    THEN "=== Available Files ===" \o NL \o JoinLines(ListFiles)
    ELSE "=== Available Files ===" \o NL \o "(repository is empty)" \o NL

\* the get response (server.py:184-190)
GetBytes(m) ==
    IF Len(SplitMax1(m)) < 2 THEN "ERROR Usage: get <filename>" \o NL
    ELSE SendFileBytes(Strip(SplitMax1(m)[2]))

\* the loop leaves on end of stream or an empty line: `if not msg: break`
\* (server.py:148-150)
BreaksLoop(r) == r.kind = "eof" \/ (r.kind = "line" /\ r.val = "")

\* what the loop sends for a line it dispatches at once: every command but
\* status (server.py:155-158, 171-194)
Response(m) ==
    IF m = "exit" THEN ByeLine
    ELSE IF m = "list" THEN ListBytes
    ELSE IF StartsWith(m, "get ") THEN GetBytes(m)
    ELSE m \o " ACK" \o NL

(***************************************************************************)
(* server.py clients_lock: `with clients_lock:` in the four registry         *)
(* functions                                                                 *)
(***************************************************************************)
\* the threads: main, and one session thread per connection
MainThread == 0
Threads == {MainThread} \cup ConnIds

\* Lock.acquire succeeds only while no thread holds the lock
LockFreeBug(holders) == TRUE
LockFree(holders) == holders = {}

\* thread t stands at a `with clients_lock:` statement: main in
\* current_active_count, a session in add_client_record, format_status or
\* close_client_record
AtLock(t) ==
    IF t = MainThread THEN mainPc = "count"
    ELSE pc[t] \in {"register", "status", "deregister"}

\* `with clients_lock:` is entered (server.py:53, 58, 68, 75)
Acquire(t) ==
    /\ AtLock(t)
    /\ t \notin clients_lock
    /\ LockFree(clients_lock)
    /\ clients_lock' = clients_lock \cup {t}
    /\ UNCHANGED <<load, clock, client_counter, clients_cache, mainPc,
                   mainConn, mainCount, nAccepted, pc, assigned, name, msg,
                   status_msg, out, closes, deregs>>

(***************************************************************************)
(* server.py main: the accept loop                                          *)
(***************************************************************************)
\* if current_active_count() >= MAX_CLIENTS  (server.py:224)
AdmissionFullBug(cnt) == cnt > MAX_CLIENTS
AdmissionFull(cnt) == cnt >= MAX_CLIENTS

\* conn, addr = server.accept()  (server.py:221)
Accept ==
    /\ mainPc = "accept"
    /\ nAccepted < ConnsOf(load)
    /\ nAccepted' = nAccepted + 1
    /\ mainConn' = nAccepted + 1
    /\ pc' = [pc EXCEPT ![nAccepted + 1] = "accepted"]
    /\ mainPc' = "count"
    /\ UNCHANGED <<clients_lock, status_msg>>
    /\ UNCHANGED <<load, clock, client_counter, clients_cache, mainCount,
                   assigned, name, msg, out, closes, deregs>>

\* current_active_count(): the count is taken under the lock and the lock
\* released (server.py:53-54, 224)
Count ==
    /\ mainPc = "count"
    /\ MainThread \in clients_lock
    /\ mainCount' = ActiveCount(clients_cache)
    /\ clients_lock' = clients_lock \ {MainThread}
    /\ mainPc' = "decide"
    /\ UNCHANGED <<load, clock, client_counter, clients_cache, mainConn,
                   nAccepted, pc, assigned, name, msg, status_msg, out,
                   closes, deregs>>

\* the capacity branch: the rejection line, conn.close(), continue
\* (server.py:225-230)
Reject ==
    /\ mainPc = "decide"
    /\ AdmissionFull(mainCount)
    /\ out' = [out EXCEPT ![mainConn] = @ \o CapacityLine]
    /\ closes' = [closes EXCEPT ![mainConn] = @ + 1]
    /\ pc' = [pc EXCEPT ![mainConn] = "rejected"]
    /\ mainPc' = "accept"
    /\ UNCHANGED <<clients_lock, status_msg>>
    /\ UNCHANGED <<load, clock, client_counter, clients_cache, mainConn,
                   mainCount, nAccepted, assigned, name, msg, deregs>>

\* the name is minted and the session thread started (server.py:233-238)
Admit ==
    /\ mainPc = "decide"
    /\ ~AdmissionFull(mainCount)
    /\ client_counter' = client_counter + 1
    /\ assigned' = [assigned EXCEPT ![mainConn] = ClientName(client_counter + 1)]
    /\ name' = [name EXCEPT ![mainConn] = ClientName(client_counter + 1)]
    /\ pc' = [pc EXCEPT ![mainConn] = "start"]
    /\ mainPc' = "accept"
    /\ UNCHANGED <<clients_lock, status_msg>>
    /\ UNCHANGED <<load, clock, clients_cache, mainConn, mainCount, nAccepted,
                   msg, out, closes, deregs>>

(***************************************************************************)
(* server.py handle_client: one thread per admitted connection              *)
(***************************************************************************)
\* the first lines a client may answer the handshake with
HsInputs(c) ==
    {Line("NAME " \o assigned[c]), Line("NAME " \o ClientName(1))}
        \cup (IF load = "pair"
              THEN {Line("hello"), Line(""), Eof, Raise}
              ELSE {})

\* what readline hands the command loop: anything a client may send, and
\* in the dialog the next line the client did send, None once the client
\* has closed its socket, nothing (the read blocks) otherwise
CmdInputs ==
    IF load = "dialog"
    THEN IF c2s # <<>> THEN {Line(Head(c2s))}
         ELSE IF cPc \in ClientDone THEN {Eof}
         ELSE {}
    ELSE {Eof}
        \cup (IF load = "pair"
              THEN {Line("exit"), Line(""), Line("status"), Line("list"), Line("get f"),
                    Line("get zz"), Line("get "), Line("hi"), Raise}
              ELSE {})

\* where control goes when the try block raises: the except clause prints,
\* then the finally block runs (server.py:196-198)
OnExceptionBug == "closed"
OnException == "finally"

\* send_text(conn, f"ASSIGNED {name}\n")  (server.py:129)
Assign(c) ==
    /\ pc[c] = "start"
    /\ out' = [out EXCEPT ![c] = @ \o AssignedLine(name[c])]
    /\ pc' = [pc EXCEPT ![c] = "handshake"]
    /\ UNCHANGED <<clients_lock, status_msg>>
    /\ UNCHANGED <<load, clock, client_counter, clients_cache, mainPc,
                   mainConn, mainCount, nAccepted, assigned, name, msg,
                   closes, deregs>>

\* line = reader.readline() and the NAME test (server.py:132-135)
HsRead(c) ==
    /\ pc[c] = "handshake"
    /\ \E r \in HsInputs(c) :
         /\ msg' = [msg EXCEPT ![c] = r]
         /\ out' = [out EXCEPT ![c] = ""]
         /\ IF r.kind = "raise"
            THEN /\ pc' = [pc EXCEPT ![c] = OnException]
                 /\ UNCHANGED name
            ELSE /\ pc' = [pc EXCEPT ![c] = "register"]
                 /\ name' = [name EXCEPT ![c] =
                        IF r.kind = "line" /\ r.val # "" /\ StartsWith(r.val, "NAME ")
                        THEN AfterFirstSpace(r.val)
                        ELSE @]
    /\ UNCHANGED <<clients_lock, status_msg>>
    /\ UNCHANGED <<load, clock, client_counter, clients_cache, mainPc,
                   mainConn, mainCount, nAccepted, assigned, closes, deregs>>

\* add_client_record(name, addr): the record is written under the lock and
\* the lock released (server.py:138, 58-64)
Register(c) ==
    /\ pc[c] = "register"
    /\ c \in clients_lock
    /\ clients_cache' = AddClientRecord(clients_cache, name[c], AddrOf(c), Str(clock))
    /\ clients_lock' = clients_lock \ {c}
    /\ pc' = [pc EXCEPT ![c] = "hello"]
    /\ UNCHANGED status_msg
    /\ UNCHANGED <<load, clock, client_counter, mainPc, mainConn, mainCount,
                   nAccepted, assigned, name, msg, out, closes, deregs>>

\* send_text(conn, f"HELLO {name}. Commands: ...\n")  (server.py:142)
Hello(c) ==
    /\ pc[c] = "hello"
    /\ out' = [out EXCEPT ![c] = @ \o HelloLine(name[c])]
    /\ pc' = [pc EXCEPT ![c] = "serving"]
    /\ UNCHANGED <<clients_lock, status_msg>>
    /\ UNCHANGED <<load, clock, client_counter, clients_cache, mainPc,
                   mainConn, mainCount, nAccepted, assigned, name, msg,
                   closes, deregs>>

\* one turn of the command loop: msg = reader.readline(), the break test,
\* the dispatch and its response (server.py:145-194); for status the turn
\* goes on in Status and StatusSend
Serve(c) ==
    /\ pc[c] = "serving"
    /\ \E r \in CmdInputs :
         /\ msg' = [msg EXCEPT ![c] = r]
         /\ IF r.kind = "raise"
            THEN /\ pc' = [pc EXCEPT ![c] = OnException]
                 /\ out' = [out EXCEPT ![c] = ""]
            ELSE IF BreaksLoop(r)
            THEN /\ pc' = [pc EXCEPT ![c] = "finally"]
                 /\ out' = [out EXCEPT ![c] = ""]
            ELSE IF r.val = "status"
            THEN /\ pc' = [pc EXCEPT ![c] = "status"]
                 /\ out' = [out EXCEPT ![c] = ""]
            ELSE /\ out' = [out EXCEPT ![c] = Response(r.val)]
                 /\ pc' = [pc EXCEPT ![c] =
                        IF r.val = "exit" THEN "finally" ELSE "serving"]
    /\ UNCHANGED <<clients_lock, status_msg>>
    /\ UNCHANGED <<load, clock, client_counter, clients_cache, mainPc,
                   mainConn, mainCount, nAccepted, assigned, name, closes,
                   deregs>>

\* status_msg = format_status(): the report is built under the lock and the
\* lock released (server.py:163, 75-88)
Status(c) ==
    /\ pc[c] = "status"
    /\ c \in clients_lock
    /\ status_msg' = [status_msg EXCEPT ![c] = FormatStatus(clients_cache)]
    /\ clients_lock' = clients_lock \ {c}
    /\ pc' = [pc EXCEPT ![c] = "status_send"]
    /\ UNCHANGED <<load, clock, client_counter, clients_cache, mainPc,
                   mainConn, mainCount, nAccepted, assigned, name, msg, out,
                   closes, deregs>>

\* the report's lines are sent one by one, then the empty line
\* (server.py:165-167)
StatusSend(c) ==
    /\ pc[c] = "status_send"
    /\ out' = [out EXCEPT ![c] = StatusBytes(status_msg[c])]
    /\ status_msg' = [status_msg EXCEPT ![c] = <<>>]
    /\ pc' = [pc EXCEPT ![c] = "serving"]
    /\ UNCHANGED <<load, clock, clients_lock, client_counter, clients_cache,
                   mainPc, mainConn, mainCount, nAccepted, assigned, name,
                   msg, closes, deregs>>

\* finally: conn.close()  (server.py:200-203)
CloseConn(c) ==
    /\ pc[c] = "finally"
    /\ closes' = [closes EXCEPT ![c] = @ + 1]
    /\ pc' = [pc EXCEPT ![c] = "deregister"]
    /\ UNCHANGED <<clients_lock, status_msg>>
    /\ UNCHANGED <<load, clock, client_counter, clients_cache, mainPc,
                   mainConn, mainCount, nAccepted, assigned, name, msg, out,
                   deregs>>

\* finally: close_client_record(name) under the lock, the lock released,
\* and the thread ends (server.py:204, 68-71)
Deregister(c) ==
    /\ pc[c] = "deregister"
    /\ c \in clients_lock
    /\ clients_cache' = CloseClientRecord(clients_cache, name[c], Str(clock))
    /\ clients_lock' = clients_lock \ {c}
    /\ deregs' = [deregs EXCEPT ![c] = Append(@, name[c])]
    /\ pc' = [pc EXCEPT ![c] = "closed"]
    /\ UNCHANGED status_msg
    /\ UNCHANGED <<load, clock, client_counter, mainPc, mainConn, mainCount,
                   nAccepted, assigned, name, msg, out, closes>>

\* a second passes
Tick ==
    /\ load = "pair"
    /\ clock < MaxClock
    /\ clock' = clock + 1
    /\ UNCHANGED <<clients_lock, status_msg>>
    /\ UNCHANGED <<clients_lock, status_msg>>
    /\ UNCHANGED <<load, client_counter, clients_cache, mainPc, mainConn,
                   mainCount, nAccepted, pc, assigned, name, msg, out, closes,
                   deregs>>

(***************************************************************************)
(* The three specifications.  Each leaves the other parts at rest.          *)
(***************************************************************************)
RdQuiet ==
    /\ wire = ""
    /\ wireOpen = FALSE
    /\ buffer = ""
    /\ call = Idle
    /\ ret = NoRet

LogQuiet ==
    /\ source0 = ""
    /\ returned = ""
    /\ raised = FALSE
    /\ lastCall = [op |-> "idle", n |-> 0, had |-> 0]

XfQuiet ==
    /\ req = "f"
    /\ sPc = "off"
    /\ fileLeft = ""
    /\ sizeSent = 0
    /\ cPc = "off"
    /\ size = 0
    /\ remaining = 0
    /\ written = ""
    /\ outName = ""
    /\ report = ""

DlgQuiet ==
    /\ user = ""
    /\ c2s = <<>>
    /\ nCmds = 0

\* the server as main() finds it (server.py:25-28): no client yet
SrvStart ==
    /\ clock = 0
    /\ clients_lock = {}
    /\ client_counter = 0
    /\ clients_cache = <<>>
    /\ mainPc = "accept"
    /\ mainConn = 0
    /\ mainCount = 0
    /\ nAccepted = 0
    /\ pc = [c \in ConnIds |-> "none"]
    /\ assigned = [c \in ConnIds |-> ""]
    /\ name = [c \in ConnIds |-> ""]
    /\ msg = [c \in ConnIds |-> NoLine]
    /\ status_msg = [c \in ConnIds |-> <<>>]
    /\ out = [c \in ConnIds |-> ""]
    /\ closes = [c \in ConnIds |-> 0]
    /\ deregs = [c \in ConnIds |-> <<>>]

\* ---- ReaderSpec: a scripted source, then arbitrary interleaved calls
Sources == StringsUpTo(MaxSrc)

RdInit ==
    /\ source0 \in Sources
    /\ wire = source0
    /\ wireOpen = FALSE
    /\ buffer = ""
    /\ call = Idle
    /\ ret = NoRet
    /\ returned = ""
    /\ raised = FALSE
    /\ lastCall = [op |-> "idle", n |-> 0, had |-> 0]
    /\ repo = [f \in FileNames |-> Absent]
    /\ XfQuiet
    /\ DlgQuiet
    /\ load = "crowd"
    /\ SrvStart

CallReadline ==
    /\ call.op = "idle"
    /\ call' = [op |-> "readline", n |-> 0]
    /\ lastCall' = [op |-> "readline", n |-> 0, had |-> Len(buffer)]
    /\ UNCHANGED <<wire, wireOpen, buffer, ret, source0, returned, raised>>

CallRead ==
    /\ call.op = "idle"
    /\ \E n \in 0..MaxRead :
         /\ call' = [op |-> "read", n |-> n]
         /\ lastCall' = [op |-> "read", n |-> n, had |-> Len(buffer)]
    /\ UNCHANGED <<wire, wireOpen, buffer, ret, source0, returned, raised>>

\* a completed call's bytes are appended to the log, a line together with
\* the newline that readline consumed
Logged ==
    /\ returned' = IF call'.op # "idle" THEN returned
                   ELSE IF ret'.kind = "line" THEN returned \o ret'.val \o NL
                   ELSE IF ret'.kind = "bytes" THEN returned \o ret'.val
                   ELSE returned
    /\ raised' = (raised \/ (call'.op = "idle" /\ ret'.kind = "raise"))
    /\ UNCHANGED <<source0, lastCall>>

RdNext ==
    \/ CallReadline /\ UNCHANGED <<xfVars, dlgVars, srvVars>>
    \/ CallRead /\ UNCHANGED <<xfVars, dlgVars, srvVars>>
    \/ ReadlineRecv /\ Logged /\ UNCHANGED <<xfVars, dlgVars, srvVars>>
    \/ ReadlineReturn /\ Logged /\ UNCHANGED <<xfVars, dlgVars, srvVars>>
    \/ ReadRecv /\ Logged /\ UNCHANGED <<xfVars, dlgVars, srvVars>>
    \/ ReadReturn /\ Logged /\ UNCHANGED <<xfVars, dlgVars, srvVars>>

ReaderSpec == RdInit /\ [][RdNext]_vars

\* ---- TransferSpec: one get, server against client, any chunking
Blobs == BlobsUpTo(MaxBlob)

XfInit ==
    /\ wire = ""
    /\ wireOpen = TRUE
    /\ buffer = ""
    /\ call = Idle
    /\ ret = NoRet
    /\ LogQuiet
    /\ req \in FileNames
    /\ \E blob \in Blobs \cup {Absent} :
         repo = [f \in FileNames |-> IF f = req THEN blob ELSE Absent]
    /\ sPc = "send_file"
    /\ fileLeft = ""
    /\ sizeSent = 0
    /\ cPc = "main"
    /\ size = 0
    /\ remaining = 0
    /\ written = ""
    /\ outName = ""
    /\ report = ""
    /\ user = "get " \o req
    /\ c2s = <<>>
    /\ nCmds = 1
    /\ load = "crowd"
    /\ SrvStart

XfServerFrame ==
    UNCHANGED <<buffer, call, ret, logVars, cPc, size, remaining, written,
                outName, report, dlgVars, srvVars>>
XfReaderFrame == UNCHANGED <<logVars, xfVars, dlgVars, srvVars>>
XfClientFrame ==
    UNCHANGED <<wire, wireOpen, buffer, ret, logVars, repo, req, sPc,
                fileLeft, sizeSent, dlgVars, srvVars>>

XfNext ==
    \/ SendFileHeader /\ XfServerFrame
    \/ SendFileChunk /\ XfServerFrame
    \/ SendNext /\ XfServerFrame
    \/ ConnLost /\ XfServerFrame
    \/ ReadlineRecv /\ XfReaderFrame
    \/ ReadlineReturn /\ XfReaderFrame
    \/ ReadRecv /\ XfReaderFrame
    \/ ReadReturn /\ XfReaderFrame
    \/ MainReadline /\ XfClientFrame
    \/ MainLine /\ XfClientFrame
    \/ RecvFileName /\ XfClientFrame
    \/ RecvFileBlank /\ XfClientFrame
    \/ RecvFileLoop /\ XfClientFrame
    \/ RecvFileChunk /\ XfClientFrame

TransferSpec == XfInit /\ [][XfNext]_vars

\* ---- Spec: the server under either workload
\* the repository of the server: one file, with a newline and a byte that
\* is not text in it
ServerRepo == [f \in FileNames |-> IF f = "f" THEN "a" \o NL \o "#" ELSE Absent]

Init ==
    /\ RdQuiet
    /\ LogQuiet
    /\ repo = ServerRepo
    /\ XfQuiet
    /\ DlgQuiet
    /\ load \in Workloads
    /\ SrvStart

SrvFrame == UNCHANGED <<rdVars, logVars, xfVars, dlgVars>>

Next ==
    \/ \E t \in Threads : Acquire(t) /\ SrvFrame
    \/ Accept /\ SrvFrame
    \/ Count /\ SrvFrame
    \/ Reject /\ SrvFrame
    \/ Admit /\ SrvFrame
    \/ \E c \in ConnIds : Assign(c) /\ SrvFrame
    \/ \E c \in ConnIds : HsRead(c) /\ SrvFrame
    \/ \E c \in ConnIds : Register(c) /\ SrvFrame
    \/ \E c \in ConnIds : Hello(c) /\ SrvFrame
    \/ \E c \in ConnIds : Serve(c) /\ SrvFrame
    \/ \E c \in ConnIds : Status(c) /\ SrvFrame
    \/ \E c \in ConnIds : StatusSend(c) /\ SrvFrame
    \/ \E c \in ConnIds : CloseConn(c) /\ SrvFrame
    \/ \E c \in ConnIds : Deregister(c) /\ SrvFrame
    \/ Tick /\ SrvFrame

Spec == Init /\ [][Next]_vars

\* ---- FairSpec: the server with its threads scheduled fairly: a thread
\* inside a registry function or at conn.close() takes its step in the end,
\* and a thread that finds the lock free again and again gets it in the
\* end; what a thread reads depends on its client and is not forced
CleanupNext(c) ==
    \/ Register(c) /\ SrvFrame
    \/ Status(c) /\ SrvFrame
    \/ CloseConn(c) /\ SrvFrame
    \/ Deregister(c) /\ SrvFrame

FairSpec ==
    /\ Spec
    /\ WF_vars(Count /\ SrvFrame)
    /\ \A c \in ConnIds : WF_vars(CleanupNext(c))
    /\ \A t \in Threads : SF_vars(Acquire(t) /\ SrvFrame)

\* ---- DialogSpec: one client in its command loop, against the session
\* thread that serves it; the handshake is over (client.py:99-117,
\* server.py:129-142)
DlgConn == 1

DlgInit ==
    /\ wire = ""
    /\ wireOpen = TRUE
    /\ buffer = ""
    /\ call = Idle
    /\ ret = Line("HELLO Client01. Commands: status | list | get <file> | exit")
    /\ LogQuiet
    /\ repo = ServerRepo
    /\ req = "f"
    /\ sPc = "off"
    /\ fileLeft = ""
    /\ sizeSent = 0
    /\ cPc = "prompt"
    /\ size = 0
    /\ remaining = 0
    /\ written = ""
    /\ outName = ""
    /\ report = ""
    /\ DlgQuiet
    /\ load = "dialog"
    /\ clock = 0
    /\ clients_lock = {}
    /\ client_counter = 1
    /\ clients_cache = <<NewRecord(ClientName(1), AddrOf(DlgConn), Str(0))>>
    /\ mainPc = "accept"
    /\ mainConn = DlgConn
    /\ mainCount = 0
    /\ nAccepted = 1
    /\ pc = [c \in ConnIds |-> IF c = DlgConn THEN "serving" ELSE "none"]
    /\ assigned = [c \in ConnIds |-> IF c = DlgConn THEN ClientName(1) ELSE ""]
    /\ name = [c \in ConnIds |-> IF c = DlgConn THEN ClientName(1) ELSE ""]
    /\ msg = [c \in ConnIds |-> IF c = DlgConn THEN Line("NAME " \o ClientName(1))
                                 ELSE NoLine]
    /\ status_msg = [c \in ConnIds |-> <<>>]
    /\ out = [c \in ConnIds |-> IF c = DlgConn THEN HelloLine(ClientName(1)) ELSE ""]
    /\ closes = [c \in ConnIds |-> 0]
    /\ deregs = [c \in ConnIds |-> <<>>]

\* what the session sends reaches the client's socket in order; the line it
\* read leaves the stream
DlgPromptFrame ==
    UNCHANGED <<wire, wireOpen, buffer, ret, logVars, repo, req, sPc,
                fileLeft, sizeSent, srvVars>>
DlgReadFrame ==
    /\ c2s' = IF c2s # <<>> THEN Tail(c2s) ELSE c2s
    /\ wire' = wire \o out'[DlgConn]
    /\ UNCHANGED <<wireOpen, buffer, call, ret, logVars, xfVars, user, nCmds>>
DlgSendFrame ==
    /\ wire' = wire \o out'[DlgConn]
    /\ UNCHANGED <<wireOpen, buffer, call, ret, logVars, xfVars, dlgVars>>
DlgCloseFrame ==
    /\ wireOpen' = FALSE
    /\ UNCHANGED <<wire, buffer, call, ret, logVars, xfVars, dlgVars>>

DlgNext ==
    \/ Prompt /\ DlgPromptFrame
    \/ MainReadline /\ XfClientFrame
    \/ MainLine /\ XfClientFrame
    \/ MultiLine /\ XfClientFrame
    \/ RecvFileName /\ XfClientFrame
    \/ RecvFileBlank /\ XfClientFrame
    \/ RecvFileLoop /\ XfClientFrame
    \/ RecvFileChunk /\ XfClientFrame
    \/ ReadlineRecv /\ XfReaderFrame
    \/ ReadlineReturn /\ XfReaderFrame
    \/ ReadRecv /\ XfReaderFrame
    \/ ReadReturn /\ XfReaderFrame
    \/ Serve(DlgConn) /\ DlgReadFrame
    \/ Acquire(DlgConn) /\ SrvFrame
    \/ Status(DlgConn) /\ SrvFrame
    \/ StatusSend(DlgConn) /\ DlgSendFrame
    \/ CloseConn(DlgConn) /\ DlgCloseFrame
    \/ Deregister(DlgConn) /\ SrvFrame

DialogSpec == DlgInit /\ [][DlgNext]_vars

(***************************************************************************)
(* Claims about the SocketReader (ReaderSpec)                               *)
(***************************************************************************)
\* the bytes not yet returned: buffered, or still to be received
Pending == buffer \o wire

C5_SuccessOnlyIfComplete ==
    (cPc = "prompt" /\ report = Downloaded) => Len(written) = size

\* C6: when send_file has sent a file of the repository in full and the
\* client's receive path has returned, the client reported the download,
\* wrote exactly the file's bytes under the file's name, and everything
\* not yet read from the connection is exactly the server's next response,
\* as far as the server has sent it.
C6_RoundTrip ==
    (cPc = "prompt" /\ sPc \in {"next", "done"} /\ repo[req] # Absent)
        => /\ report = Downloaded
           /\ written = repo[req]
           /\ size = Len(repo[req])
           /\ outName = req
           /\ call.op = "idle"
           /\ buffer \o wire = (IF sPc = "done" THEN NextResp ELSE "")

\* a file of three bytes, sent in two chunks, has been received whole while
\* the first byte of the next response already sits in the reader's buffer
C6_Witness ==
    /\ cPc = "prompt"
    /\ sPc = "done"
    /\ Len(repo[req]) = 3
    /\ report = Downloaded
    /\ written = repo[req]
    /\ buffer = "k"

(***************************************************************************)
(* Claims about the server (Spec)                                           *)
(***************************************************************************)
Handshaking == {"start", "handshake", "register", "hello"}
Closing == {"finally", "deregister", "closed"}
Serving == {"serving", "status", "status_send"}
Running(c) == pc[c] \in Handshaking \cup Serving

\* C1: at most MAX_CLIENTS sessions are Handshaking or Serving at a time.
C1_SessionsBounded ==
    Cardinality({c \in ConnIds : Running(c)}) <= MAX_CLIENTS

\* main's step after it found current_active_count() >= MAX_CLIENTS
C3_RejectStep ==
    (mainPc = "decide" /\ mainCount >= MAX_CLIENTS /\ mainPc' # "decide")
        => /\ pc'[mainConn] = "rejected"
           /\ out'[mainConn] = CapacityLine
           /\ closes'[mainConn] = 1
           /\ assigned'[mainConn] = ""
           /\ client_counter' = client_counter
           /\ clients_cache' = clients_cache
           /\ ActiveCount(clients_cache') = ActiveCount(clients_cache)
\* a rejected connection is left alone for good
C3_RejectedStays ==
    \A c \in ConnIds :
        pc[c] = "rejected"
            => /\ pc'[c] = "rejected"
               /\ out'[c] = out[c]
               /\ closes'[c] = closes[c]
               /\ deregs'[c] = <<>>

\* C3: when main finds current_active_count() >= MAX_CLIENTS for the
\* connection it accepted, its next step sends that connection the capacity
\* line and nothing else, closes it, mints no name and leaves the registry
\* (hence the active count) as it is; nothing is ever sent on a rejected
\* connection afterwards and no session runs on it.
C3_AdmissionRejection == [][C3_RejectStep /\ C3_RejectedStays]_vars

\* the registry holds MAX_CLIENTS active records and a further connection
\* was rejected with the capacity line
C3_Witness ==
    /\ ActiveCount(clients_cache) = MAX_CLIENTS
    /\ \E c \in ConnIds :
         /\ pc[c] = "rejected"
         /\ out[c] = CapacityLine
         /\ closes[c] = 1
    /\ client_counter = MAX_CLIENTS

IsNameLine(r) == r.kind = "line" /\ StartsWith(r.val, "NAME ")

\* a step of session c in its handshake that read something else than a
\* NAME line
C4_Step(c) ==
    (pc[c] \in Handshaking /\ pc'[c] # pc[c]
        /\ msg'[c] # NoLine /\ ~IsNameLine(msg'[c]))
            => /\ pc'[c] \in Closing
               /\ clients_cache' = clients_cache
               /\ out'[c] = ""

\* C4: a session whose first line is absent or is no NAME line goes
\* straight to its cleanup: it registers no record, sends no HELLO and
\* never serves a command.
C4_BadHandshakeCloses == [][\A c \in ConnIds : C4_Step(c)]_vars

\* a turn of session c's command loop that read an empty line
C7_Step(c) ==
    (pc[c] = "serving" /\ msg'[c] = Line("")
        /\ (pc'[c] # pc[c] \/ msg'[c] # msg[c]))
            => /\ pc'[c] = "serving"
               /\ out'[c] = ""
               /\ clients_cache' = clients_cache

\* C7: an empty command line is ignored: the server sends no response, the
\* session stays in Serving and the registry is left as it is.
C7_EmptyLineIgnored == [][\A c \in ConnIds : C7_Step(c)]_vars

\* how often session c has closed its connection and deregistered, by
\* where it is
C8_State(c) ==
    /\ closes[c] <= 1
    /\ Len(deregs[c]) <= 1
    /\ pc[c] \in Handshaking \cup Serving \cup {"none", "accepted", "finally"}
            => closes[c] = 0 /\ deregs[c] = <<>>
    /\ pc[c] = "deregister" => closes[c] = 1 /\ deregs[c] = <<>>
    /\ pc[c] = "closed" => closes[c] = 1 /\ deregs[c] = <<name[c]>>
\* a closed session takes no further step
C8_Step(c) ==
    pc[c] = "closed"
        => /\ pc'[c] = "closed"
           /\ out'[c] = out[c]
           /\ msg'[c] = msg[c]
           /\ name'[c] = name[c]
           /\ closes'[c] = closes[c]
           /\ deregs'[c] = deregs[c]

\* C8: a session closes its connection once and deregisters its name once,
\* on every way out of the try block (exit, end of stream, an exception);
\* before the finally block neither has happened, and a closed session
\* does nothing more.
C8_CleanupOnce ==
    /\ [](\A c \in ConnIds : C8_State(c))
    /\ [][\A c \in ConnIds : C8_Step(c)]_vars

\* a session that left its command loop by an exception has closed its
\* connection once and deregistered its name once
C8_Witness ==
    \E c \in ConnIds :
        /\ pc[c] = "closed"
        /\ msg[c] = Raise
        /\ HasName(clients_cache, name[c])
        /\ closes[c] = 1
        /\ deregs[c] = <<name[c]>>

\* session c's call of add_client_record
C9_Step(c) ==
    (pc[c] = "register" /\ pc'[c] # "register")
        => ~HasName(clients_cache, name[c])

\* C9: add_client_record is never called with a name the registry already
\* holds, whatever names the clients echo.
C9_RegisterFreshName == [][\A c \in ConnIds : C9_Step(c)]_vars

\* no step touches an inactive record
C10_Step ==
    \A i \in 1..Len(clients_cache) :
        ~clients_cache[i].active
            => /\ Len(clients_cache') >= i
               /\ clients_cache'[i] = clients_cache[i]

\* C10: a record whose active flag is false is never made active again,
\* keeps its timestamps, and is never removed or replaced.
C10_InactiveImmutable == [][C10_Step]_vars

\* session c's call of close_client_record(name)
C11_Step(c) ==
    (pc[c] = "deregister" /\ pc'[c] = "closed")
        => IF ~HasName(clients_cache, name[c])
           THEN clients_cache' = clients_cache
           ELSE IF ~clients_cache[PosOf(clients_cache, name[c])].active
           THEN clients_cache' = clients_cache
           ELSE clients_cache' =
                    [clients_cache EXCEPT
                        ![PosOf(clients_cache, name[c])].active = FALSE,
                        ![PosOf(clients_cache, name[c])].disconnected_at =
                            Str(clock)]

\* C11: close_client_record is idempotent: called for a name whose record
\* is already inactive it leaves the registry as it is (the disconnect
\* time stays the one the first call set), called for an absent name it
\* changes nothing, and otherwise it marks the record inactive at the
\* current time.
C11_DeregisterIdempotent == [][\A c \in ConnIds : C11_Step(c)]_vars

\* the record registered under session c's name
RecordOf(c) == clients_cache[PosOf(clients_cache, name[c])]

\* C12: a session in Serving has a record under its name and the record is
\* active, whatever the handshakes, errors and terminations of the other
\* sessions did to the registry.
C12_ServingRecordActive ==
    \A c \in ConnIds :
        pc[c] \in Serving
            => HasName(clients_cache, name[c]) /\ RecordOf(c).active

\* the name a NAME line claims: what follows "NAME "
Claimed(r) == Drop(r.val, 5)

\* the steps of session c's handshake, in the order of the code
C13_Step(c) ==
    /\ (pc[c] = "start" /\ pc'[c] # "start")
         => /\ pc'[c] = "handshake"
            /\ msg[c] = NoLine /\ msg'[c] = NoLine
            /\ out'[c] = "ASSIGNED " \o assigned[c] \o NL
            /\ clients_cache' = clients_cache
    /\ (pc[c] = "handshake" /\ pc'[c] # "handshake" /\ IsNameLine(msg'[c]))
         => /\ pc'[c] = "register"
            /\ name'[c] = Claimed(msg'[c])
            /\ out'[c] = ""
            /\ clients_cache' = clients_cache
    /\ (pc[c] = "register" /\ pc'[c] # "register" /\ IsNameLine(msg[c]))
         => /\ pc'[c] = "hello"
            /\ name[c] = Claimed(msg[c])
            /\ HasName(clients_cache', name[c])
            /\ clients_cache'[PosOf(clients_cache', name[c])].active
            /\ clients_cache'[PosOf(clients_cache', name[c])].addr = AddrOf(c)
            /\ (name[c] # assigned[c] /\ ~HasName(clients_cache, assigned[c]))
                 => ~HasName(clients_cache', assigned[c])
            /\ out'[c] = ""
    /\ (pc[c] = "hello" /\ pc'[c] # "hello" /\ IsNameLine(msg[c]))
         => /\ pc'[c] = "serving"
            /\ HasName(clients_cache, name[c])
            /\ out'[c] = "HELLO " \o Claimed(msg[c])
                    \o ". Commands: status | list | get <file> | exit" \o NL
            /\ clients_cache' = clients_cache
\* nothing is read or sent before ASSIGNED, and from the HELLO on the
\* session's name has a record
C13_State(c) ==
    /\ pc[c] = "start" => msg[c] = NoLine /\ out[c] = ""
    /\ pc[c] \in {"hello"} \cup Serving => HasName(clients_cache, name[c])

\* C13: a session sends ASSIGNED <provisional name> before it reads
\* anything; when the first line is NAME <claimed name> it then creates an
\* active record under the claimed name (none under the provisional one),
\* then sends HELLO <claimed name>, then serves; the record exists before
\* the HELLO is sent and before any command is processed.
C13_HandshakeOrder ==
    /\ [](\A c \in ConnIds : C13_State(c))
    /\ [][\A c \in ConnIds : C13_Step(c)]_vars

\* the second client claimed the first client's name: it was greeted under
\* the claimed name and no record exists under its provisional name
C13_Witness ==
    \E c \in ConnIds :
        /\ pc[c] = "serving"
        /\ assigned[c] = "Client02"
        /\ msg[c] = Line("NAME Client01")
        /\ name[c] = "Client01"
        /\ out[c] = "HELLO Client01. Commands: status | list | get <file> | exit" \o NL
        /\ HasName(clients_cache, "Client01")
        /\ ~HasName(clients_cache, "Client02")

\* a get line whose file name is not empty and names no file of the
\* repository
MissingGet(r) ==
    /\ r.kind = "line"
    /\ StartsWith(r.val, "get ")
    /\ Strip(Drop(r.val, 4)) # ""
    /\ \A f \in FileNames : Present(f) => Strip(Drop(r.val, 4)) # f

\* a turn of session c's command loop that read such a line
C14_Step(c) ==
    (pc[c] = "serving" /\ msg'[c] # msg[c] /\ MissingGet(msg'[c]))
        => /\ pc'[c] = "serving"
           /\ out'[c] = "ERROR File not found" \o NL
           /\ clients_cache' = clients_cache
           /\ closes'[c] = 0
           /\ deregs'[c] = <<>>

\* C14: a get for a name the repository does not hold is answered with the
\* one line ERROR File not found and nothing else (no header, no payload);
\* the session stays in Serving, its connection open and the registry as
\* it was, so its record stays active and the next command is served.
C14_GetMissing == [][\A c \in ConnIds : C14_Step(c)]_vars

\* a served session was told that the file it asked for does not exist
C14_Witness ==
    \E c \in ConnIds :
        /\ pc[c] = "serving"
        /\ msg[c] = Line("get zz")
        /\ out[c] = "ERROR File not found" \o NL
        /\ HasName(clients_cache, name[c])
        /\ RecordOf(c).active
        /\ closes[c] = 0

\* the steps of a read(n) call: Pending is what lies at the shared cursor
C16_Step ==
    /\ (call.op = "read" /\ call'.op = "read")
         => /\ Pending' = Pending
            /\ wire' # wire => Len(buffer) < call.n
    /\ (call.op = "read" /\ call'.op = "idle")
         => /\ ret'.kind = "bytes"
            /\ ret'.val \o Pending' = Pending
            /\ Len(ret'.val) <= call.n
            /\ Len(ret'.val) < call.n
                 => ~wireOpen /\ wire' = "" /\ buffer' = "" /\ Len(Pending) < call.n
            /\ wire' # wire => Len(buffer) < call.n

\* C16: read(n) returns exactly the next n bytes at the cursor it shares
\* with readline, buffered bytes first; it receives from the connection
\* only while fewer than n bytes are buffered; it returns fewer than n
\* bytes only when the connection closed with fewer than n bytes left, and
\* then it returns all of them.
C16_ReadExact == [][C16_Step]_vars

\* a read(3) found one byte buffered (over-read by the readline before
\* it), received one more, met the end of the stream and returned both
C16_Witness ==
    /\ call.op = "idle"
    /\ lastCall = [op |-> "read", n |-> 3, had |-> 1]
    /\ ret = [kind |-> "bytes", val |-> "ab"]
    /\ source0 = "a" \o NL \o "ab"
    /\ buffer = ""
    /\ wire = ""

\* the lines of a text in which every line ends with a newline
RECURSIVE LinesOf(_)
LinesOf(s) ==
    IF s = "" THEN <<>>
    ELSE <<SubSeq(s, 1, IndexOf(s, NL) - 1)>> \o LinesOf(Drop(s, IndexOf(s, NL)))

\* how a report line for record r begins
ShownAs(r) == r.name \o " [" \o (IF r.active THEN "ACTIVE" ELSE "DISCONNECTED") \o "] "

\* session c's status turn: the report is taken from the registry in one
\* step, under the lock, and then sent as it was taken
C15_Step(c) ==
    /\ (pc[c] = "status" /\ pc'[c] # "status")
         => /\ clients_lock = {c}
            /\ clients_cache' = clients_cache
            /\ pc'[c] = "status_send"
            /\ out'[c] = ""
            /\ Len(status_msg'[c]) = Len(clients_cache) + 1
            /\ status_msg'[c][1] = "=== Server Cache ==="
            /\ \A i \in 1..Len(clients_cache) :
                 StartsWith(status_msg'[c][i + 1], ShownAs(clients_cache[i]))
    /\ (pc[c] = "status_send" /\ pc'[c] # "status_send")
         => /\ pc'[c] = "serving"
            /\ out'[c] # ""
            /\ SubSeq(out'[c], Len(out'[c]), Len(out'[c])) = NL
            /\ Len(LinesOf(out'[c])) = Len(status_msg[c]) + 1
            /\ \A i \in 1..Len(status_msg[c]) :
                 LinesOf(out'[c])[i] = status_msg[c][i]
            /\ LinesOf(out'[c])[Len(status_msg[c]) + 1] = ""

\* C15: the response to status is the header line, then one line per
\* record of the registry in insertion order, each beginning with the
\* record's name and its state, then one empty line; the lines are those of
\* the registry as it was at the one step, under the lock, at which the
\* report was taken.
C15_StatusReport == [][\A c \in ConnIds : C15_Step(c)]_vars

\* the second client asked for the status after the first had left: two
\* record lines in the order of registration, then the empty line
C15_Witness ==
    \E c \in ConnIds :
        /\ pc[c] = "serving"
        /\ msg[c] = Line("status")
        /\ Len(clients_cache) = 2
        /\ out[c] = "=== Server Cache ===" \o NL
               \o "Client01 [DISCONNECTED] | addr=h:1 | connected=0 | disconnected=0" \o NL
               \o "Client02 [ACTIVE] | addr=h:2 | connected=0 | disconnected=None" \o NL
               \o NL

\* who holds the lock, and where: at most one thread, inside one of the
\* four registry functions; a session waiting for its client holds nothing
C20_State ==
    /\ Cardinality(clients_lock) <= 1
    /\ MainThread \in clients_lock => mainPc = "count"
    /\ \A c \in ConnIds :
         /\ c \in clients_lock => pc[c] \in {"register", "status", "deregister"}
         /\ pc[c] \in {"handshake", "serving"} => c \notin clients_lock
\* the registry is read and written by the holder alone, which then
\* releases; whoever accepts, sends, receives or closes holds nothing
C20_Step ==
    /\ clients_cache' # clients_cache
         => \E c \in ConnIds : clients_lock = {c} /\ clients_lock' = {}
    /\ (mainPc = "count" /\ mainPc' # "count")
         => clients_lock = {MainThread} /\ clients_lock' = {}
    /\ nAccepted' # nAccepted => MainThread \notin clients_lock
    /\ \A c \in ConnIds :
         /\ (pc[c] \in {"register", "status", "deregister"} /\ pc'[c] # pc[c])
              => clients_lock = {c} /\ clients_lock' = {}
         /\ (out'[c] # out[c] \/ msg'[c] # msg[c] \/ closes'[c] # closes[c])
              => /\ c \notin clients_lock
                 /\ c \notin clients_lock'
                 /\ pc[c] = "accepted" => clients_lock' = clients_lock
                                           /\ MainThread \notin clients_lock

\* C20: the four registry functions run one at a time under the one lock;
\* no thread accepts, sends, receives or closes while it holds the lock, so
\* a session that waits for its client never keeps main or another session
\* from a registry operation.
C20_LockDiscipline == [](C20_State) /\ [][C20_Step]_vars

\* one session waits for its client's first line while another holds the
\* lock in add_client_record and main waits for the lock to count
C20_Witness ==
    \E c, d \in ConnIds :
        /\ pc[c] = "handshake"
        /\ pc[d] = "register"
        /\ clients_lock = {d}
        /\ mainPc = "count"

(***************************************************************************)
(* Claims about the client's dialog with its session (DialogSpec)           *)
(***************************************************************************)
\* the client waits in recv: its call needs bytes and none has arrived on
\* the open connection
ClientWaits ==
    /\ call.op # "idle"
    /\ wire = ""
    /\ wireOpen
    /\ call.op = "readline" => ~Contains(buffer, NL)
    /\ call.op = "read" => Len(buffer) < call.n
\* the session waits in recv for a command the client has not sent
ServerWaits ==
    /\ pc[DlgConn] = "serving"
    /\ c2s = <<>>
    /\ cPc \notin ClientDone

\* C17: whatever the user types, the client reads the response to the end
\* and no further: when it is back at its prompt with the session waiting
\* for the next command nothing of the response is left unread, and the
\* client and its session never both wait for the other.
C17_DialogProgress ==
    /\ ~(ClientWaits /\ ServerWaits)
    /\ (cPc = "prompt" /\ ServerWaits)
         => buffer = "" /\ wire = "" /\ call.op = "idle"

\* the client leaves its loop by the exit test only when the session
\* answered BYE to the line, and the session answers BYE only to a line on
\* which the client will leave
C19_Step ==
    /\ (cPc # "exited" /\ cPc' = "exited")
         => /\ msg[DlgConn] = Line(user)
            /\ out[DlgConn] = "BYE" \o NL
            /\ pc[DlgConn] \in Closing
    /\ (pc[DlgConn] = "serving" /\ pc'[DlgConn] # "serving"
            /\ out'[DlgConn] = "BYE" \o NL)
         => user = "exit"

\* C19: for every line the user types the client takes it for the exit
\* command exactly when the server does, in whatever case the word is
\* typed.
C19_ExitAgreed == [][C19_Step]_vars

(***************************************************************************)
(* Claims about the server under fair scheduling (FairSpec)                 *)
(***************************************************************************)
\* session c left its command loop because its client closed the
\* connection or sent exit
ClientLeft(c) == pc[c] = "finally" /\ msg[c] \in {Eof, Line("exit")}

\* a status report taken now shows the record of every closed session as
\* inactive
C18_Step ==
    \A d \in ConnIds :
        (pc[d] = "status" /\ pc'[d] = "status_send")
            => \A c \in ConnIds :
                 (pc[c] = "closed" /\ HasName(clients_cache, name[c]))
                     => StartsWith(status_msg'[d][PosOf(clients_cache, name[c]) + 1],
                                   name[c] \o " [DISCONNECTED] ")

\* C18: under fair scheduling a session whose client closed the connection
\* or sent exit reaches Closed, and every status report taken after that
\* shows the session's record as inactive.
C18_ClosedShownInactive ==
    /\ \A c \in ConnIds : ClientLeft(c) ~> (pc[c] = "closed")
    /\ [][C18_Step]_vars

=============================================================================
